---- MODULE Spec2Model ----
(***************************************************************************)
(* A model of the two components of the site:                              *)
(*   - the notes viewer (src/src/lib/MainSection.svelte): selectArticle,   *)
(*     its request-id guard, parseFrontMatter/toMeta and the two $effects; *)
(*   - the Game of Life background (src/unnamed/part_000): the double      *)
(*     buffered grid, the animation timer and the resize listener.         *)
(* The components share no state; each has its own specification.          *)
(* Strings that the code takes apart (markdown, html) are sequences of     *)
(* lines; JS arrays are 0-indexed functions.                               *)
(***************************************************************************)
EXTENDS Integers, Sequences, FiniteSets, TLC

VARIABLES
    \* ---- notes viewer (MainSection.svelte) ----
    articles,        \* the articles prop
    activeSlug,      \* $state<string | null>
    renderedHtml,    \* $state("")   (a sequence of html lines, <<>> is "")
    isLoading,       \* $state(false)
    errorMessage,    \* $state("")
    currentRequest,  \* $state(0)
    activeMeta,      \* $state<ArticleMeta | null>
    requests,        \* the selectArticle calls made so far, in call order, each
                     \* with its captured id, how it ended, whether it was stale
                     \* then, and the markdown it fetched if it was not
    mounted,         \* the component's onMount has run
    \* ---- Game of Life background (unnamed/part_000) ----
    cols,            \* let cols: number
    rows,            \* let rows: number
    grid,            \* let grid: boolean[][]      (a reference into heap)
    nextGrid,        \* let nextGrid: boolean[][]  (a reference into heap)
    heap,            \* the arrays grid and nextGrid refer to
    animationTimer,  \* let animationTimer: number (0 while undefined)
    isRunning,       \* let isRunning: boolean
    canvas,          \* the canvas element is bound; its width, height, picture
    browser,         \* let browser: boolean
    timers,          \* the ids of the timeouts that are pending
    timerSeq,        \* the id the last setTimeout returned
    listener,        \* handleResize is registered on window
    window,          \* window.innerWidth, window.innerHeight
    resizePending,   \* a resize event is queued
    resizes,         \* how many times the window was resized
    viewport,        \* the window size the last onMount or handleResize read
    pc,              \* where the running callback is; "idle" between tasks
    destroyed        \* onDestroy has run

lifeVars == <<cols, rows, grid, nextGrid, heap, animationTimer, isRunning, canvas,
              browser, timers, timerSeq, listener, window, resizePending, resizes,
              viewport, pc, destroyed>>

notesVars == <<articles, activeSlug, renderedHtml, isLoading, errorMessage,
               currentRequest, activeMeta, requests, mounted>>

vars == <<notesVars, lifeVars>>

\* ------------------------------------------------------------------------
\* Bounds
\* ------------------------------------------------------------------------
MaxRequests == 2
MaxCols == 4
MaxRows == 2
MaxTicks == 2
MaxResizes == 1

\* ------------------------------------------------------------------------
\* Notes viewer: values
\* ------------------------------------------------------------------------
Null == "<null>"

appBrowser == TRUE

\* An Article as the page load builds it: download_url is never empty there.
ArticleOf(slug) == [slug |-> slug, download_url |-> "https://raw/" \o slug]

ArticleLists ==
    { <<>>, <<ArticleOf("intro")>>, <<ArticleOf("intro"), ArticleOf("notes")>> }

\* Lines of a markdown file.
DELIM == "---"
BLANK == ""
BADYAML == "{bad"
YAMLTITLE == "title: Note"
YAMLDRAFT == "draft: true"
TEXT == "Hello"

DocPlain == <<TEXT>>
DocMeta == <<DELIM, YAMLTITLE, YAMLDRAFT, DELIM, BLANK, TEXT>>
DocBadYaml == <<DELIM, BADYAML, DELIM, TEXT>>
DocUnclosed == <<DELIM, YAMLTITLE, TEXT>>
DocNoBody == <<DELIM, YAMLTITLE, DELIM>>

Documents == {DocPlain, DocMeta, DocBadYaml, DocUnclosed, DocNoBody}

NullMeta == [type |-> "null", fields |-> {}]
Undefined == [type |-> "undefined", fields |-> {}]

\* ------------------------------------------------------------------------
\* Notes viewer: pure functions
\* ------------------------------------------------------------------------
IsBlank(line) == line = BLANK

\* String.prototype.trimStart on a sequence of lines: leading blank lines go.
RECURSIVE trimStart(_)
trimStart(md) ==
    IF md = <<>> THEN <<>>
    ELSE IF IsBlank(Head(md)) THEN trimStart(Tail(md))
    ELSE md

\* js-yaml load of one line: <<key, typeof value, value>>.
YamlField(line) ==
    IF line = YAMLTITLE THEN <<"title", "string", "Note">>
    ELSE IF line = YAMLDRAFT THEN <<"draft", "boolean", "true">>
    ELSE <<line, "string", line>>

Range(s) == {s[i] : i \in 1..Len(s)}

YamlThrows(raw) == BADYAML \in Range(raw)

\* js-yaml load where it does not throw: undefined for an empty document,
\* otherwise the mapping of its lines.
parseYaml(raw) ==
    LET lines == {l \in Range(raw) : ~IsBlank(l)}
    IN  IF lines = {} THEN Undefined
        ELSE [type |-> "object", fields |-> {YamlField(l) : l \in lines}]

MetaKeys == {"title", "date", "description", "lang"}

toMeta(data) ==
    IF data.type = "undefined" THEN NullMeta
    ELSE LET kept == {f \in data.fields : f[1] \in MetaKeys /\ f[2] = "string"}
         IN  IF kept = {} THEN NullMeta
             ELSE [type |-> "object", fields |-> {<<f[1], f[3]>> : f \in kept}]

\* FRONT_MATTER_PATTERN on lines: the opening --- is line 1, then blank lines
\* are consumed greedily, the captured group is lazy and ends before the first
\* later --- line. The result is <<k, raw>> with k the closing line, or <<0, <<>>>>.
FrontMatterMatch(md) ==
    IF Len(md) < 3 \/ md[1] # DELIM THEN <<0, <<>>>>
    ELSE
      LET nonBlank == {i \in 2..Len(md) : ~IsBlank(md[i])}
      IN  IF nonBlank = {} THEN <<0, <<>>>>
          ELSE
            LET p == CHOOSE i \in nonBlank : \A j \in nonBlank : i <= j
                closers == {k \in (p+1)..Len(md) : md[k] = DELIM}
            IN  IF closers # {}
                THEN LET k == CHOOSE c \in closers : \A d \in closers : c <= d
                     IN  <<k, SubSeq(md, p, k - 1)>>
                ELSE IF md[p] = DELIM /\ p >= 3 THEN <<p, <<>>>>
                ELSE <<0, <<>>>>

parseFrontMatter(markdown) ==
    LET t == trimStart(markdown)
    IN  IF t = <<>> \/ Head(t) # DELIM
        THEN [content |-> markdown, data |-> Undefined]
        ELSE
          LET match == FrontMatterMatch(markdown)
          IN  IF match[1] = 0
              THEN [content |-> markdown, data |-> Undefined]
              ELSE IF YamlThrows(match[2])
              THEN [content |-> markdown, data |-> Undefined]
              ELSE [content |-> trimStart(SubSeq(markdown, match[1] + 1, Len(markdown))),
                    data |-> parseYaml(match[2])]

HtmlLine(line) ==
    IF line = DELIM THEN "<hr>" ELSE "<p>" \o line \o "</p>"

\* marked.parse: blank lines produce nothing, every other line one element.
RECURSIVE marked(_)
marked(md) ==
    IF md = <<>> THEN <<>>
    ELSE IF IsBlank(Head(md)) THEN marked(Tail(md))
    ELSE <<HtmlLine(Head(md))>> \o marked(Tail(md))

\* ------------------------------------------------------------------------
\* Notes viewer: selectArticle
\* ------------------------------------------------------------------------
View ==
    [activeSlug |-> activeSlug, renderedHtml |-> renderedHtml,
     isLoading |-> isLoading, errorMessage |-> errorMessage,
     currentRequest |-> currentRequest, activeMeta |-> activeMeta,
     requests |-> requests]

\* What a fetch can come to.
Outcomes ==
    { [kind |-> "reject", markdown |-> <<>>], [kind |-> "notOk", markdown |-> <<>>] }
    \cup { [kind |-> "ok", markdown |-> d] : d \in Documents }

ErrorText(outcome) ==
    IF outcome.kind = "notOk" THEN "Unable to fetch the selected article."
    ELSE "Failed to fetch"

\* selectArticle with the counter left as it is (line 93 dropped).
selectArticle_NoIncrement(v, article) ==
    IF ~appBrowser \/ article.download_url = "" THEN v
    ELSE [v EXCEPT
            !.isLoading = TRUE,
            !.errorMessage = "",
            !.activeSlug = article.slug,
            !.activeMeta = NullMeta,
            !.requests = Append(@, [requestId |-> v.currentRequest,
                                    slug |-> article.slug,
                                    status |-> "pending",
                                    markdown |-> <<>>,
                                    wasStale |-> FALSE])]

\* selectArticle up to its first await (lines 89-102).
selectArticle(v, article) ==
    IF ~appBrowser \/ article.download_url = "" THEN v
    ELSE [v EXCEPT
            !.currentRequest = @ + 1,
            !.isLoading = TRUE,
            !.errorMessage = "",
            !.activeSlug = article.slug,
            !.activeMeta = NullMeta,
            !.requests = Append(@, [requestId |-> v.currentRequest + 1,
                                    slug |-> article.slug,
                                    status |-> "pending",
                                    markdown |-> <<>>,
                                    wasStale |-> FALSE])]

\* Lines 108-110: the html and the meta of a fetched markdown.
renderArticle(markdown) ==
    LET parsed == parseFrontMatter(markdown)
    IN  [html |-> marked(IF parsed.content # <<>> THEN parsed.content ELSE markdown),
         meta |-> toMeta(parsed.data)]

\* The try block without the request-id check of lines 112-114.
tryBlock_Unguarded(v, requestId, markdown) ==
    LET r == renderArticle(markdown)
    IN  [v EXCEPT !.renderedHtml = r.html, !.activeMeta = r.meta]

\* The try block after the awaits (lines 107-117), for a response that is ok.
tryBlock(v, requestId, markdown) ==
    LET r == renderArticle(markdown)
    IN  IF requestId # v.currentRequest THEN v
        ELSE [v EXCEPT !.renderedHtml = r.html, !.activeMeta = r.meta]

\* A catch block that swallows the error.
catchBlock_Silent(v, requestId, message) == v

\* The catch block (lines 118-120).
catchBlock(v, requestId, message) ==
    [v EXCEPT !.errorMessage = message]

\* A finally block that clears isLoading whatever the request id.
finallyBlock_Always(v, requestId) == [v EXCEPT !.isLoading = FALSE]

\* The finally block (lines 121-125).
finallyBlock(v, requestId) ==
    IF requestId = v.currentRequest THEN [v EXCEPT !.isLoading = FALSE] ELSE v

\* selectArticle from its first await to its end, for request number i.
selectArticleResume(v, i, outcome) ==
    LET req == v.requests[i]
        body == IF outcome.kind = "ok"
                THEN tryBlock(v, req.requestId, outcome.markdown)
                ELSE catchBlock(v, req.requestId, ErrorText(outcome))
        done == finallyBlock(body, req.requestId)
    IN  [done EXCEPT !.requests[i].status = IF outcome.kind = "ok" THEN "done" ELSE "failed",
                     !.requests[i].markdown =
                         IF req.requestId = v.currentRequest THEN outcome.markdown ELSE <<>>,
                     !.requests[i].wasStale = (req.requestId # v.currentRequest)]

\* ------------------------------------------------------------------------
\* Notes viewer: onMount and the two $effects
\* ------------------------------------------------------------------------
Falsy(s) == s = Null \/ s = ""

onMountNotes(v, arts) ==
    IF Len(arts) > 0 THEN selectArticle(v, arts[1]) ELSE v

\* $effect of lines 134-138.
effectSelectFirst(v, arts) ==
    IF appBrowser /\ Len(arts) > 0 /\ Falsy(v.activeSlug) /\ ~v.isLoading
    THEN selectArticle(v, arts[1])
    ELSE v

\* $effect of lines 140-146.
effectResetMissing(v, arts) ==
    IF ~Falsy(v.activeSlug) /\ ~(\E i \in 1..Len(arts) : arts[i].slug = v.activeSlug)
    THEN [v EXCEPT !.activeSlug = Null, !.renderedHtml = <<>>, !.activeMeta = NullMeta]
    ELSE v

\* The effects run, in their order of creation, until none has anything to do.
RECURSIVE runEffects(_, _)
runEffects(v, arts) ==
    LET w == effectResetMissing(effectSelectFirst(v, arts), arts)
    IN  IF w = v THEN v ELSE runEffects(w, arts)

\* ------------------------------------------------------------------------
\* Notes viewer: actions
\* ------------------------------------------------------------------------
\* A view that waits for its latest request with no active slug selects the
\* first article as soon as that request ends: one request is kept for it.
Reserve(w, arts) ==
    IF Falsy(w.activeSlug) /\ w.isLoading /\ Len(arts) > 0 THEN 1 ELSE 0

Commit(w, arts) ==
    /\ Len(w.requests) + Reserve(w, arts) <= MaxRequests
    /\ activeSlug' = w.activeSlug
    /\ renderedHtml' = w.renderedHtml
    /\ isLoading' = w.isLoading
    /\ errorMessage' = w.errorMessage
    /\ currentRequest' = w.currentRequest
    /\ activeMeta' = w.activeMeta
    /\ requests' = w.requests

NotesInit ==
    /\ articles \in ArticleLists
    /\ activeSlug = Null
    /\ renderedHtml = <<>>
    /\ isLoading = FALSE
    /\ errorMessage = ""
    /\ currentRequest = 0
    /\ activeMeta = NullMeta
    /\ requests = <<>>
    /\ mounted = FALSE

Mount ==
    /\ ~mounted
    /\ mounted' = TRUE
    /\ Commit(runEffects(onMountNotes(View, articles), articles), articles)
    /\ UNCHANGED <<articles, lifeVars>>

\* A click on an article's button.
Click ==
    /\ mounted
    /\ \E i \in 1..Len(articles) :
          Commit(runEffects(selectArticle(View, articles[i]), articles), articles)
    /\ UNCHANGED <<articles, mounted, lifeVars>>

\* A pending selectArticle call runs to its end.
Complete ==
    /\ mounted
    /\ \E i \in 1..Len(requests) : \E outcome \in Outcomes :
          /\ requests[i].status = "pending"
          /\ Commit(runEffects(selectArticleResume(View, i, outcome), articles), articles)
    /\ UNCHANGED <<articles, mounted, lifeVars>>

\* The page data is reloaded and the articles prop changes.
SetArticles ==
    /\ mounted
    /\ \E arts \in ArticleLists :
          /\ arts # articles
          /\ articles' = arts
          /\ Commit(runEffects(View, arts), arts)
    /\ UNCHANGED <<mounted, lifeVars>>

NotesNext == Mount \/ Click \/ Complete \/ SetArticles

\* ------------------------------------------------------------------------
\* Game of Life background: values
\* ------------------------------------------------------------------------
cellSize == 15

\* The window sizes the browser may have: a large and a small one, neither a
\* multiple of the cell size.
LargeViewport ==
    [innerWidth |-> cellSize * MaxCols + 7, innerHeight |-> cellSize * MaxRows + 3]

SmallViewport ==
    [innerWidth |-> cellSize * (MaxCols - 1) + 14,
     innerHeight |-> cellSize * (MaxRows - 1) + 1]

Viewports == {LargeViewport, SmallViewport}

Refs == {"A", "B"}

\* An array of r arrays of c cells, all of them v.
Filled(r, c, v) == [i \in 0..(r - 1) |-> [j \in 0..(c - 1) |-> v]]

Life ==
    [cols |-> cols, rows |-> rows, grid |-> grid, nextGrid |-> nextGrid,
     heap |-> heap, animationTimer |-> animationTimer, isRunning |-> isRunning,
     canvas |-> canvas, browser |-> browser, timers |-> timers,
     timerSeq |-> timerSeq, listener |-> listener, viewport |-> viewport]

\* ------------------------------------------------------------------------
\* Game of Life background: functions
\* ------------------------------------------------------------------------
\* initializeGrid (lines 19-46): two new arrays; Math.random decides the cells
\* of the left and right columns of grid. The set of its possible results.
initializeGrid(l) ==
    LET leftColumnEnd == (l.cols * 3) \div 10
        rightColumnStart == (l.cols * 7) \div 10
        side == {<<i, j>> \in (0..(l.rows - 1)) \X (0..(l.cols - 1)) :
                    j < leftColumnEnd \/ j >= rightColumnStart}
    IN  { [l EXCEPT
             !.grid = "A",
             !.nextGrid = "B",
             !.heap = [ref \in Refs |->
                         IF ref = "A"
                         THEN [i \in 0..(l.rows - 1) |->
                                 [j \in 0..(l.cols - 1) |-> <<i, j>> \in alive]]
                         ELSE Filled(l.rows, l.cols, FALSE)]]
          : alive \in SUBSET side }

\* countNeighbors (lines 49-64): the offsets (i, j) whose wrapped cell is alive.
countNeighbors(l, g, x, y) ==
    Cardinality({ o \in (-1..1) \X (-1..1) :
                    /\ ~(o[1] = 0 /\ o[2] = 0)
                    /\ LET col == (x + o[1] + l.cols) % l.cols
                           row == (y + o[2] + l.rows) % l.rows
                       IN  g[row][col] })

\* A rule that lets a live cell with four neighbours live on.
cellRule_OffByOne(currentCell, neighbors) ==
    IF currentCell /\ (neighbors < 2 \/ neighbors > 4) THEN FALSE
    ELSE IF ~currentCell /\ neighbors = 3 THEN TRUE
    ELSE currentCell

\* The if/else chain of lines 74-80: the value written to nextGrid[i][j].
cellRule(currentCell, neighbors) ==
    IF currentCell /\ (neighbors < 2 \/ neighbors > 3) THEN FALSE
    ELSE IF ~currentCell /\ neighbors = 3 THEN TRUE
    ELSE currentCell

\* The loops of lines 68-82 from cell number k on: each cell reads the array
\* grid refers to and writes the array nextGrid refers to.
RECURSIVE stepCells(_, _)
stepCells(l, k) ==
    IF k >= l.rows * l.cols THEN l
    ELSE LET i == k \div l.cols
             j == k % l.cols
             neighbors == countNeighbors(l, l.heap[l.grid], j, i)
             currentCell == l.heap[l.grid][i][j]
         IN  stepCells([l EXCEPT !.heap[l.nextGrid][i][j] =
                                     cellRule(currentCell, neighbors)],
                       k + 1)

\* computeNextGeneration (lines 67-86): the loops, then the swap.
computeNextGeneration(l) ==
    LET done == stepCells(l, 0)
    IN  [done EXCEPT !.grid = done.nextGrid, !.nextGrid = done.grid]

\* drawGrid (lines 100-127): the canvas shows the live cells of grid.
drawGrid(l) ==
    IF ~l.canvas.bound THEN l
    ELSE [l EXCEPT !.canvas.picture = l.heap[l.grid]]

\* animationTimer = setTimeout(animate, updateInterval) (lines 96 and 161):
\* the browser hands out a new id and the timeout is pending.
scheduleAnimate(l) ==
    [l EXCEPT !.timerSeq = @ + 1,
              !.timers = @ \cup {l.timerSeq + 1},
              !.animationTimer = l.timerSeq + 1]

\* Lines 133-139 and 149-155: the grid size from the window, and the canvas
\* resized to it (which clears it).
measure(l, w) ==
    LET c == w.innerWidth \div cellSize
        r == w.innerHeight \div cellSize
        sized == [l EXCEPT !.cols = c, !.rows = r, !.viewport = w]
    IN  IF l.canvas.bound
        THEN [sized EXCEPT !.canvas = [bound |-> TRUE, width |-> c * cellSize,
                                       height |-> r * cellSize, picture |-> <<>>]]
        ELSE sized

\* A handleResize that also restarts the animation.
handleResize_Restart(l, w) ==
    IF ~l.browser THEN {l}
    ELSE {scheduleAnimate(m) : m \in initializeGrid(measure(l, w))}

\* A handleResize that leaves the old arrays in place.
handleResize_NoInit(l, w) ==
    IF ~l.browser THEN {l} ELSE {measure(l, w)}

\* handleResize (lines 130-142); w is the window as the handler reads it.
handleResize(l, w) ==
    IF ~l.browser THEN {l}
    ELSE initializeGrid(measure(l, w))

\* onMount (lines 144-164).
onMount(l, w) ==
    { [scheduleAnimate(drawGrid(m)) EXCEPT !.listener = TRUE]
      : m \in initializeGrid(measure([l EXCEPT !.browser = TRUE], w)) }

\* An onDestroy that forgets the timer.
onDestroy_KeepTimer(l) ==
    IF ~l.browser THEN l
    ELSE [l EXCEPT !.listener = FALSE]

\* onDestroy (lines 166-173).
onDestroy(l) ==
    IF ~l.browser THEN l
    ELSE [l EXCEPT
            !.timers = IF l.animationTimer # 0 THEN @ \ {l.animationTimer} ELSE @,
            !.listener = FALSE]

\* animate (lines 89-97) in its three steps.
animateCompute(l) == IF l.isRunning THEN computeNextGeneration(l) ELSE l

animateDraw(l) == IF l.isRunning THEN drawGrid(l) ELSE l

animateSchedule(l) == scheduleAnimate(l)

\* ------------------------------------------------------------------------
\* Game of Life background: actions
\* ------------------------------------------------------------------------
CommitLife(w) ==
    /\ cols' = w.cols
    /\ rows' = w.rows
    /\ grid' = w.grid
    /\ nextGrid' = w.nextGrid
    /\ heap' = w.heap
    /\ animationTimer' = w.animationTimer
    /\ isRunning' = w.isRunning
    /\ canvas' = w.canvas
    /\ browser' = w.browser
    /\ timers' = w.timers
    /\ timerSeq' = w.timerSeq
    /\ listener' = w.listener
    /\ viewport' = w.viewport

LifeInit ==
    /\ cols = 100
    /\ rows = 60
    /\ grid = "A"
    /\ nextGrid = "B"
    /\ heap = [ref \in Refs |-> <<>>]
    /\ animationTimer = 0
    /\ isRunning = TRUE
    /\ canvas = [bound |-> FALSE, width |-> 0, height |-> 0, picture |-> <<>>]
    /\ browser = FALSE
    /\ timers = {}
    /\ timerSeq = 0
    /\ listener = FALSE
    /\ window \in Viewports
    /\ resizePending = FALSE
    /\ resizes = 0
    /\ viewport = [innerWidth |-> 0, innerHeight |-> 0]
    /\ pc = "idle"
    /\ destroyed = FALSE

\* The component is mounted in the browser: the canvas is bound, onMount runs.
LifeMount ==
    /\ pc = "idle" /\ ~browser /\ ~destroyed
    /\ \E w \in onMount([Life EXCEPT !.canvas.bound = TRUE], window) : CommitLife(w)
    /\ UNCHANGED <<window, resizePending, resizes, pc, destroyed, notesVars>>

\* The user resizes the window; the browser queues a resize event.
WindowResized ==
    /\ resizes < MaxResizes
    /\ \E w \in Viewports : w # window /\ window' = w
    /\ resizes' = resizes + 1
    /\ resizePending' = TRUE
    /\ UNCHANGED <<cols, rows, grid, nextGrid, heap, animationTimer, isRunning,
                   canvas, browser, timers, timerSeq, listener, viewport, pc,
                   destroyed, notesVars>>

\* The event loop dispatches the resize event to the listeners there are.
ResizeEvent ==
    /\ pc = "idle" /\ resizePending
    /\ resizePending' = FALSE
    /\ IF listener
       THEN \E w \in handleResize(Life, window) : CommitLife(w)
       ELSE CommitLife(Life)
    /\ UNCHANGED <<window, resizes, pc, destroyed, notesVars>>

\* The event loop runs a timeout that is due: animate starts.
TimerFires ==
    /\ pc = "idle" /\ timerSeq <= MaxTicks
    /\ \E id \in timers :
          CommitLife(animateCompute([Life EXCEPT !.timers = @ \ {id}]))
    /\ pc' = "computed"
    /\ UNCHANGED <<window, resizePending, resizes, destroyed, notesVars>>

AnimateDraws ==
    /\ pc = "computed"
    /\ CommitLife(animateDraw(Life))
    /\ pc' = "drawn"
    /\ UNCHANGED <<window, resizePending, resizes, destroyed, notesVars>>

AnimateSchedules ==
    /\ pc = "drawn"
    /\ CommitLife(animateSchedule(Life))
    /\ pc' = "idle"
    /\ UNCHANGED <<window, resizePending, resizes, destroyed, notesVars>>

\* The component is torn down.
Destroy ==
    /\ pc = "idle" /\ ~destroyed
    /\ CommitLife(onDestroy(Life))
    /\ destroyed' = TRUE
    /\ UNCHANGED <<window, resizePending, resizes, pc, notesVars>>

LifeNext ==
    \/ LifeMount \/ WindowResized \/ ResizeEvent
    \/ TimerFires \/ AnimateDraws \/ AnimateSchedules \/ Destroy

\* ------------------------------------------------------------------------
\* Specifications: the two components share nothing, each runs on its own.
\* ------------------------------------------------------------------------
\* The notes viewer, beside a background that is not mounted.
InitNotes == NotesInit /\ LifeInit /\ window = LargeViewport

SpecNotes == InitNotes /\ [][NotesNext]_vars

\* Every fetch comes to an end: a pending call is eventually resumed.
FairSpecNotes == SpecNotes /\ WF_vars(Complete)

\* The background, beside a notes viewer that has no articles and is not mounted.
InitLife == NotesInit /\ articles = <<>> /\ LifeInit

SpecLife == InitLife /\ [][LifeNext]_vars

\* ------------------------------------------------------------------------
\* Notes viewer: properties
\* ------------------------------------------------------------------------
Pending == {i \in 1..Len(requests) : requests[i].status = "pending"}

\* Request i ends in this step.
Ends(i) == requests[i].status = "pending" /\ requests'[i].status # "pending"

\* A selectArticle call is made in this step.
Issues == Len(requests') > Len(requests)

IsLatest(i) == requests[i].requestId = currentRequest

LastRequest == requests[Len(requests)]

\* C1: a response of an earlier selection that arrives after a later selection
\* never overwrites the displayed result. renderedHtml and activeMeta change
\* only in a step in which the request whose id is currentRequest ends well,
\* in which a new call clears the meta (after the missing-slug effect, if it
\* ran, emptied the html), or in which the missing-slug effect resets the view; and once no call is pending, the last one has ended well
\* and its slug is still the active one, renderedHtml and activeMeta are the
\* rendering of what that last call fetched.
C1_WrittenByLatestOnly ==
    (renderedHtml' # renderedHtml \/ activeMeta' # activeMeta) =>
        \/ \E i \in 1..Len(requests) :
              IsLatest(i) /\ Ends(i) /\ requests'[i].status = "done"
        \/ Issues /\ activeMeta' = NullMeta /\ renderedHtml' \in {renderedHtml, <<>>}
        \/ activeSlug # Null /\ activeSlug' = Null /\ renderedHtml' = <<>>
           /\ activeMeta' = NullMeta

C1_FinalIsLast ==
    (/\ requests # <<>>
     /\ Pending = {}
     /\ LastRequest.status = "done"
     /\ activeSlug = LastRequest.slug)
    => /\ renderedHtml = renderArticle(LastRequest.markdown).html
       /\ activeMeta = renderArticle(LastRequest.markdown).meta

C1_StaleNeverOverwrites ==
    [](C1_FinalIsLast) /\ [][C1_WrittenByLatestOnly]_vars

\* C1's case: an earlier call for another article ended well, as a stale one,
\* and the document of the last call is displayed.
C1_Witness ==
    /\ Len(requests) >= 2
    /\ Pending = {}
    /\ LastRequest.status = "done"
    /\ activeSlug = LastRequest.slug
    /\ \E i \in 1..(Len(requests) - 1) :
          /\ requests[i].status = "done"
          /\ requests[i].wasStale
          /\ requests[i].slug # LastRequest.slug
    /\ renderedHtml = renderArticle(LastRequest.markdown).html
    /\ renderedHtml # <<>>

\* C2: a call whose id is no longer currentRequest leaves the whole view
\* state unchanged when it ends, whether it succeeded or failed.
C2_StaleLeavesViewUnchanged ==
    [][\A i \in 1..Len(requests) :
          (Ends(i) /\ ~IsLatest(i)) =>
              UNCHANGED <<renderedHtml, activeMeta, errorMessage, isLoading, activeSlug>>
      ]_vars

\* C3: the request id only grows and the latest id wins. currentRequest never
\* decreases, the ids captured by the calls are strictly increasing in call
\* order and never above currentRequest, and at most one pending call has the
\* id currentRequest.
C3_IdsIncrease ==
    /\ \A i, j \in 1..Len(requests) :
          i < j => requests[i].requestId < requests[j].requestId
    /\ \A i \in 1..Len(requests) : requests[i].requestId <= currentRequest
    /\ Cardinality({i \in Pending : IsLatest(i)}) <= 1

C3_LatestIdWins ==
    [](C3_IdsIncrease) /\ [][currentRequest' >= currentRequest]_vars

\* C3's case: two calls are pending at once and exactly one is authoritative.
C3_Witness ==
    /\ Cardinality(Pending) >= 2
    /\ Cardinality({i \in Pending : IsLatest(i)}) = 1

\* C4: when the fetch of the latest selection fails, the view is in an error
\* state: errorMessage is not empty and isLoading is false for as long as
\* that call is the latest; the failing call writes neither renderedHtml nor
\* activeMeta; and a further selectArticle call is accepted, takes a new id
\* and clears errorMessage.
C4_ErrorState ==
    \A i \in 1..Len(requests) :
        (IsLatest(i) /\ requests[i].status = "failed") =>
            /\ errorMessage # ""
            /\ ~isLoading
            /\ \A k \in 1..Len(articles) :
                  LET w == selectArticle(View, articles[k])
                  IN  /\ w.currentRequest = currentRequest + 1
                      /\ w.errorMessage = ""
                      /\ w.isLoading

C4_FailureWritesNoContent ==
    \A i \in 1..Len(requests) :
        (IsLatest(i) /\ Ends(i) /\ requests'[i].status = "failed" /\ ~Issues) =>
            UNCHANGED <<renderedHtml, activeMeta>>

C4_LatestFailureShowsError ==
    [](C4_ErrorState) /\ [][C4_FailureWritesNoContent]_vars

\* C4's case: the latest call failed as the latest one, after an earlier
\* call had put content on display, and there are articles to select.
C4_Witness ==
    /\ Len(requests) >= 2
    /\ IsLatest(Len(requests))
    /\ LastRequest.status = "failed"
    /\ ~LastRequest.wasStale
    /\ renderedHtml # <<>>
    /\ errorMessage # ""
    /\ Len(articles) > 0

\* The front matter of a document matches and its YAML does not parse.
FrontMatterFails(markdown) ==
    /\ FrontMatterMatch(markdown)[1] # 0
    /\ YamlThrows(FrontMatterMatch(markdown)[2])

\* C5: a front-matter parse failure is not surfaced as an error. When the
\* latest call has ended with such a document (and its slug is still active),
\* renderedHtml is the rendering of the raw markdown, activeMeta is null,
\* errorMessage is empty and isLoading is false.
C5_ParseFailureNotAnError ==
    \A i \in 1..Len(requests) :
        (/\ IsLatest(i)
         /\ requests[i].status = "done"
         /\ activeSlug = requests[i].slug
         /\ FrontMatterFails(requests[i].markdown))
        => /\ renderedHtml = marked(requests[i].markdown)
           /\ activeMeta = NullMeta
           /\ errorMessage = ""
           /\ ~isLoading

\* C10: isLoading is true exactly when the latest call has not ended yet, and
\* if every fetch comes to an end, a loading view eventually stops loading.
C10_LoadingIffLatestPending ==
    isLoading <=> (\E i \in Pending : IsLatest(i))

C10_LoadingTracksLatest ==
    [](C10_LoadingIffLatestPending) /\ (isLoading ~> ~isLoading)

\* C10's case: an older call has ended while the latest is still pending,
\* and the view is still loading.
C10_Witness ==
    /\ isLoading
    /\ \E i \in 1..Len(requests) : requests[i].status # "pending" /\ requests[i].wasStale
    /\ \E i \in Pending : IsLatest(i)

\* ------------------------------------------------------------------------
\* Game of Life background: properties
\* ------------------------------------------------------------------------
Offsets8 ==
    { <<-1, -1>>, <<-1, 0>>, <<-1, 1>>, <<0, -1>>, <<0, 1>>, <<1, -1>>, <<1, 0>>, <<1, 1>> }

Wrap(n, m) == ((n % m) + m) % m

\* The Game of Life on a torus of nr rows and nc columns.
LiveNeighbours(g, r, c, nr, nc) ==
    Cardinality({d \in Offsets8 : g[Wrap(r + d[1], nr)][Wrap(c + d[2], nc)]})

LifeStep(g, nr, nc) ==
    [r \in 0..(nr - 1) |->
        [c \in 0..(nc - 1) |->
            LET n == LiveNeighbours(g, r, c, nr, nc)
            IN  \/ ~g[r][c] /\ n = 3
                \/ g[r][c] /\ n \in {2, 3}]]

\* The step in which a timer fires and animate computes the next generation.
TickComputes == pc = "idle" /\ pc' = "computed"

\* C6: after every tick the grid is the Game of Life step, on the torus, of
\* the grid before that tick (birth on exactly 3 live neighbours, survival on
\* 2 or 3), and grid and nextGrid never refer to the same array.
C6_TickStep == TickComputes => heap'[grid'] = LifeStep(heap[grid], rows, cols)

C6_TwoBuffers == grid # nextGrid

C6_TickIsLifeStep == [](C6_TwoBuffers) /\ [][C6_TickStep]_vars

\* C6's case: the second tick in a row has computed a generation in which a
\* cell was born, a cell died and a cell survived (nextGrid now refers to the
\* generation before the tick).
C6_Witness ==
    /\ pc = "computed"
    /\ timerSeq = 2
    /\ \E i \in 0..(rows - 1), j \in 0..(cols - 1) :
          heap[grid][i][j] /\ ~heap[nextGrid][i][j]
    /\ \E i \in 0..(rows - 1), j \in 0..(cols - 1) :
          ~heap[grid][i][j] /\ heap[nextGrid][i][j]
    /\ \E i \in 0..(rows - 1), j \in 0..(cols - 1) :
          heap[grid][i][j] /\ heap[nextGrid][i][j]

\* C7: ticks never overlap. At most one timer is pending, none while animate
\* runs; a timer is set only by onMount or by animate after it has computed
\* and drawn; and a resize event is handled only between callbacks.
C7_OneTimer ==
    /\ Cardinality(timers) <= 1
    /\ pc # "idle" => timers = {}

C7_Step ==
    /\ (timers' \ timers # {}) => (pc = "drawn" \/ (~browser /\ browser'))
    /\ (resizePending /\ ~resizePending') => (pc = "idle" /\ pc' = "idle")

C7_TicksNeverOverlap == [](C7_OneTimer) /\ [][C7_Step]_vars

\* C7's case: a resize event is queued while a second tick is between
\* computing and drawing, and no timer is pending.
C7_Witness ==
    /\ pc = "computed"
    /\ resizePending
    /\ listener
    /\ timerSeq >= 2
    /\ timers = {}

\* C8: once the component is torn down no timer is pending and no listener is
\* registered, and from then on nothing of the component changes: no tick
\* runs, no timer is set and no resize is handled.
C8_Released == destroyed => (timers = {} /\ ~listener /\ pc = "idle")

C8_Step ==
    destroyed =>
        UNCHANGED <<cols, rows, grid, nextGrid, heap, animationTimer, isRunning,
                    canvas, browser, timers, timerSeq, listener, viewport, pc>>

C8_TeardownStopsEverything == [](C8_Released) /\ [][C8_Step]_vars

\* C8's case: a mounted component was torn down after a tick, and a resize
\* of the window that followed was delivered to no one.
C8_Witness ==
    /\ destroyed
    /\ browser
    /\ timerSeq >= 2
    /\ resizes >= 1
    /\ ~resizePending
    /\ viewport # window

\* C9: after mount, grid and nextGrid each have rows rows of cols cells, with
\* cols and rows the floor of the width and height, over the cell size, of
\* the window that the latest onMount or handleResize read; that window
\* is the current one when the listener is registered and no resize event is
\* waiting.
IsGrid(a, r, c) ==
    /\ DOMAIN a = 0..(r - 1)
    /\ \A i \in DOMAIN a : DOMAIN a[i] = 0..(c - 1)

C9_GridMatchesViewport ==
    browser =>
        /\ cols * cellSize <= viewport.innerWidth
        /\ viewport.innerWidth < (cols + 1) * cellSize
        /\ rows * cellSize <= viewport.innerHeight
        /\ viewport.innerHeight < (rows + 1) * cellSize
        /\ IsGrid(heap[grid], rows, cols)
        /\ IsGrid(heap[nextGrid], rows, cols)
        /\ (listener /\ ~resizePending) => viewport = window

\* C9's case: a tick computes a generation on the arrays that a handled
\* resize made (the canvas has not been drawn since the resize cleared it).
C9_Witness ==
    /\ pc = "computed"
    /\ resizes >= 1
    /\ viewport = window
    /\ canvas.picture = <<>>
    /\ IsGrid(heap[grid], rows, cols)

\* ------------------------------------------------------------------------
\* Notes viewer: the displayed content and the active article
\* ------------------------------------------------------------------------
\* The view is in the state in which it shows renderedHtml.
ShowsContent == ~isLoading /\ errorMessage = "" /\ renderedHtml # <<>>

\* renderedHtml and activeMeta are the rendering of what the latest call
\* fetched, and that call was made for the active slug.
RenderedIsActive ==
    \E i \in 1..Len(requests) :
        /\ IsLatest(i)
        /\ requests[i].status = "done"
        /\ requests[i].slug = activeSlug
        /\ renderedHtml = renderArticle(requests[i].markdown).html
        /\ activeMeta = renderArticle(requests[i].markdown).meta

\* C11: the displayed content always belongs to the active article. In every
\* state where isLoading is false, errorMessage is empty and renderedHtml is
\* not empty, renderedHtml and activeMeta are the rendering of the article
\* whose slug is activeSlug, also after the articles list lost the active slug.
C11_DisplayedBelongsToActive == ShowsContent => RenderedIsActive

====
